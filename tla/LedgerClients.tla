---------------------------- MODULE LedgerClients ----------------------------
(***************************************************************************)
(* The ledger as the scheduler uses it: each holder stands for a task that *)
(* either holds nothing or holds the CPUs and GPUs one allocate() call    *)
(* returned to it (Scheduler::tryScheduleNext), and gives them back with   *)
(* one release() call when it finishes (Scheduler::handleTaskCompletion). *)
(* Holders call allocate() and release() in any interleaving; the ledger   *)
(* mutex makes each call one step.                                         *)
(***************************************************************************)
EXTENDS Ledger

CONSTANTS Holders, Requests, NoAlloc

ASSUME Requests \subseteq Request

VARIABLE holding  \* holding[h]: NoAlloc or [req, cpus, gpus, seen, sampled]

vars == <<allocatedCpus, allocatedGpus, holding>>

Init ==
  /\ LedgerInit
  /\ holding = [h \in Holders |-> NoAlloc]

\* tryScheduleNext: allocate(ncpu, ngpu, specific_cpus, specific_gpus); on
\* success the task keeps the returned sets as allocated_cpus/_gpus.
ClientAllocate(h, req) ==
  /\ holding[h] = NoAlloc
  /\ \E r \in AllocateOutcomes(req) :
       /\ allocatedCpus' = r.ledgerCpus
       /\ allocatedGpus' = r.ledgerGpus
       /\ holding' = IF r.ok
                     THEN [holding EXCEPT ![h] =
                             [req |-> req, cpus |-> r.cpus, gpus |-> r.gpus,
                              seen |-> r.seen, sampled |-> r.sampled]]
                     ELSE holding

\* handleTaskCompletion: release(allocated_cpus, allocated_gpus).
ClientRelease(h) ==
  /\ holding[h] # NoAlloc
  /\ Release(holding[h].cpus, holding[h].gpus)
  /\ holding' = [holding EXCEPT ![h] = NoAlloc]

Next ==
  \/ \E h \in Holders, req \in Requests : ClientAllocate(h, req)
  \/ \E h \in Holders : ClientRelease(h)

Spec == Init /\ [][Next]_vars

-----------------------------------------------------------------------------
Holding == {h \in Holders : holding[h] # NoAlloc}

TypeOK ==
  /\ allocatedCpus \subseteq Cpus
  /\ allocatedGpus \subseteq Gpus
  /\ \A h \in Holding : holding[h].cpus \subseteq Cpus /\ holding[h].gpus \subseteq Gpus

\* The ledger is exactly what the holders hold: a failed allocate() has no
\* net effect (the GPUs of phase one and the CPUs picked before the pick
\* fell short are all rolled back), and release() frees only what it names.
LedgerAccountsForHoldings ==
  /\ allocatedCpus = UNION {holding[h].cpus : h \in Holding}
  /\ allocatedGpus = UNION {holding[h].gpus : h \in Holding}

\* A holder whose CPUs were placed automatically next to GPUs of a single
\* affinity group got cores of that group's range only
\* (determineAffinityGroup feeding getAvailableCPUs).
AutoPlacementAffinity ==
  \A h \in Holding :
    LET a == holding[h]
        groups == {GetAffinityGroup(g) : g \in a.gpus}
    IN  (a.req.cpus = {} /\ Cardinality(groups) = 1) =>
          \A grp \in groups : a.cpus \subseteq CpuRangeForGroup(grp)

\* Spec section 4.1: a GPU the query did not report (or reported over the
\* threshold) must be treated as busy, so every GPU handed out was reported
\* idle by the query that placed it.
PlacesOnlyReportedIdleGpus ==
  \A h \in Holding : \A g \in DOMAIN holding[h].seen : holding[h].seen[g] = "idle"

\* A sample in which the core ran for less than the threshold share of the
\* jiffies that passed, worked out directly from the counter increments.
BelowThresholdRef(s) ==
  LET elapsed == s.busy + s.idle + s.iowait
  IN  s.listed /\ (elapsed = 0 \/ 100 * s.busy < UtilThreshold * elapsed)

\* Spec section 4.2: a core is handed out (named or picked from the
\* shuffled candidates) only when every sample of its sustained-idle
\* window (CPUMonitor::checkCPUAvailable) showed it below the threshold:
\* a sample exactly at the threshold, or of a core gone from /proc/stat,
\* rules it out.
PlacesOnlySustainedIdleCpus ==
  \A h \in Holding : \A c \in DOMAIN holding[h].sampled :
    \A k \in DOMAIN holding[h].sampled[c] : BelowThresholdRef(holding[h].sampled[c][k])

\* The ledger implements the abstract pool: every successful allocate() is
\* a grant of free, non-excluded resources matching the request, every
\* failed one changes nothing a holder can see, every release() gives back
\* one holding.
Pool == INSTANCE ResourcePool WITH
          Cpus <- Cpus, Gpus <- Gpus,
          held <- [h \in Holders |->
                     IF holding[h] = NoAlloc THEN NoAlloc
                     ELSE [req |-> holding[h].req, cpus |-> holding[h].cpus,
                           gpus |-> holding[h].gpus]]

PoolRefinement == Pool!PoolSpec

=============================================================================
