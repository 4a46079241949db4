---------------------------- MODULE ResourcePool ----------------------------
(***************************************************************************)
(* What the resource ledger promises its callers, with no probes, no      *)
(* phases and no rollback: a caller that holds nothing may be granted a   *)
(* set of CPUs and GPUs that nobody else holds, that are not excluded, and *)
(* that match its request (exactly the ids it named, or as many as it      *)
(* asked for); a holder may give its resources back.  A failed allocate() *)
(* is a stuttering step.                                                   *)
(***************************************************************************)
EXTENDS Integers, FiniteSets

CONSTANTS Holders, Cpus, Gpus, ExcludedCpus, ExcludedGpus, Requests, NoAlloc

VARIABLE held   \* held[h]: NoAlloc, or [req, cpus, gpus] granted to h

InUseCpus == UNION {held[h].cpus : h \in {x \in Holders : held[x] # NoAlloc}}
InUseGpus == UNION {held[h].gpus : h \in {x \in Holders : held[x] # NoAlloc}}

\* The ids a grant must consist of: the named ones, or the requested number.
Matches(wanted, n, granted) ==
  IF wanted # {} THEN granted = wanted ELSE Cardinality(granted) = n

Grant(h, req, cpus, gpus) ==
  /\ held[h] = NoAlloc
  /\ cpus \cap (InUseCpus \cup ExcludedCpus) = {}
  /\ gpus \cap (InUseGpus \cup ExcludedGpus) = {}
  /\ Matches(req.cpus, req.ncpu, cpus)
  /\ Matches(req.gpus, req.ngpu, gpus)
  /\ held' = [held EXCEPT ![h] = [req |-> req, cpus |-> cpus, gpus |-> gpus]]

GiveBack(h) ==
  /\ held[h] # NoAlloc
  /\ held' = [held EXCEPT ![h] = NoAlloc]

PoolInit == held = [h \in Holders |-> NoAlloc]

PoolNext ==
  \/ \E h \in Holders, req \in Requests, cpus \in SUBSET Cpus, gpus \in SUBSET Gpus :
        Grant(h, req, cpus, gpus)
  \/ \E h \in Holders : GiveBack(h)

PoolSpec == PoolInit /\ [][PoolNext]_held

=============================================================================
