------------------------------ MODULE MyQueue ------------------------------
(***************************************************************************)
(* The myqueue daemon: the task store, the resource ledger, the jobs it   *)
(* forks, and the threads that drive them (src/src/core/server.cpp,       *)
(* scheduler.cpp, executor.cpp):                                           *)
(*   - the scheduling thread (Scheduler::tryScheduleNext),                 *)
(*   - the monitoring thread (Scheduler::checkRunningTasks and            *)
(*     handleTaskCompletion),                                              *)
(*   - one IPC client thread per connection (Server::handleSubmit,         *)
(*     handleDelete and the Scheduler::terminateTask it calls),            *)
(*   - the jobs themselves, which exit on their own or on a signal,        *)
(*   - crashes and restarts of the daemon (Server::start's recovery).      *)
(* Each step is one call made under one lock (store mutex, ledger mutex)  *)
(* or one system call; the threads interleave between them, and what a    *)
(* thread read in an earlier step is kept in its local state.             *)
(***************************************************************************)
EXTENDS Integers, FiniteSets, Sequences, FiniteSetsExt

CONSTANTS
  TotalCpus, TotalGpus, GpuGroupSplit, CpuGroupSplit, CpuRangeEnd,
  ExcludedCpus, ExcludedGpus, GpuMemThreshold, GpuAnswers,   \* as in Ledger
  UtilThreshold, CheckDurationMs, CheckIntervalMs, CounterWidth, CpuSamples,
  Requests,      \* the SubmitRequests clients send
  Clients,       \* IPC client threads that send delete and query requests
  RequestKinds,  \* the requests they send: "del" (handleDelete of one id),
                 \* "all" (handleDeleteAll), "query" and "query_all"
                 \* (handleQueryQueue without and with completed tasks)
  MaxTasks,      \* bound: ids issued
  MaxPids,       \* bound: fork() calls
  MaxRestarts,   \* bound: daemon restarts
  TornSaves,     \* whether a crash may cut a save() of tasks.json short
  MaxSeconds     \* bound: the system clock's second

VARIABLES
  tasks, nextId, disk,            \* the task store (TaskQueue)
  allocatedCpus, allocatedGpus,   \* the ledger (ResourceMonitor)
  proc,      \* proc[pid]: [state, cpus, gpus, gen] of every forked job
  nextPid,   \* the next pid fork() returns (pids are never reused here)
  gen,       \* which incarnation of the daemon is running
  disp,      \* scheduling thread: [pc, task, pid, cpus, gpus]
  mon,       \* monitoring thread: [pc, todo, cur, copy]
  cli,       \* cli[c]: [pc, mode, id, attempt, copy, snap] of a client thread
  notified,  \* notified[id]: the state-change callbacks fired for id
  clock,     \* the current second of system_clock
  finished   \* history: the ids the store has ever shown in a terminal state

TQ == INSTANCE TaskQueue
L  == INSTANCE Ledger

vars == <<tasks, nextId, disk, allocatedCpus, allocatedGpus, proc, nextPid,
          gen, disp, mon, cli, notified, clock, finished>>

TaskIds == 1 .. MaxTasks
NoTask == 0
DispIdle == [pc |-> "idle", task |-> NoTask, pid |-> 0, cpus |-> {}, gpus |-> {}]
MonIdle  == [pc |-> "idle", todo |-> {}, cur |-> NoTask, copy |-> NoTask]
CliIdle  == [pc |-> "idle", mode |-> "del", id |-> NoTask, attempt |-> 1,
             copy |-> NoTask, snap |-> {}]

Init ==
  /\ TQ!StoreInit
  /\ L!LedgerInit
  /\ proc = <<>>
  /\ nextPid = 1
  /\ gen = 0
  /\ disp = DispIdle
  /\ mon = MonIdle
  /\ cli = [c \in Clients |-> CliIdle]
  /\ notified = [i \in TaskIds |-> <<>>]
  /\ clock = 0
  /\ finished = {}

-----------------------------------------------------------------------------
(* Helpers.                                                                *)

\* notifyStateChange(id, old, new): the callback log of id grows.
Notify(id, old, new) ==
  notified' = [notified EXCEPT ![id] = Append(@, <<old, new>>)]

\* queue_.save() of the store as it is when the thread gets to it (only
\* submit() moves next_id_, and Submit saves it itself).
SaveStore == disk' = TQ!Saved(tasks, nextId)

\* The job is a child of the running daemon (waitpid() can reap it).
OurChild(p) == proc[p].gen = gen

\* A process-table entry exists for the job (alive or a zombie), so kill()
\* of its process group succeeds.
Exists(p) == proc[p].state \in {"alive", "zombie"}

SetProc(p, s) == proc' = [proc EXCEPT ![p].state = s]

\* Executor::execute in the parent: fork() gives a child of this daemon,
\* which both sides put in its own process group (setpgid), so kill(-pid)
\* reaches it.  The child's environment, log redirection, chdir and exec are
\* its own business: a failed chdir or exec ends it at once (exit 127/126),
\* which JobExit covers.  A failed fork() (-1) is the caller's other branch.
Execute(cpus, gpus) == [state |-> "alive", cpus |-> cpus, gpus |-> gpus, gen |-> gen]

-----------------------------------------------------------------------------
(* Scheduling thread: Scheduler::tryScheduleNext.                          *)

\* Mutation: a failed fork returns without releasing the reserved sets.
DispatchAllocateNoForkFailRelease ==
  /\ disp.pc = "idle"
  /\ TQ!WithStatus("Pending") # {}
  /\ \E t \in TQ!PendingHeads :
       \E r \in L!AllocateOutcomes(tasks[t].req) :
           /\ r.ok
           /\ \/ /\ nextPid <= MaxPids
                 /\ allocatedCpus' = r.ledgerCpus
                 /\ allocatedGpus' = r.ledgerGpus
                 /\ proc' = [p \in DOMAIN proc \cup {nextPid} |->
                              IF p = nextPid
                              THEN Execute(r.cpus, r.gpus)
                              ELSE proc[p]]
                 /\ nextPid' = nextPid + 1
                 /\ disp' = [pc |-> "spawned", task |-> t, pid |-> nextPid,
                             cpus |-> r.cpus, gpus |-> r.gpus]
                 /\ UNCHANGED <<tasks, disk, notified>>
              \/ /\ allocatedCpus' = r.ledgerCpus
                 /\ allocatedGpus' = r.ledgerGpus
                 /\ tasks' = TQ!SetTaskFailed(t)
                 /\ Notify(t, "Pending", "Failed")
                 /\ UNCHANGED <<proc, nextPid, disp, disk>>
  /\ UNCHANGED <<nextId, gen, mon, cli>>

\* getPendingTasks() (sorted by submit time), allocate() for the front, and
\* execute() (fork).  A failed allocate() is a stuttering step; a failed
\* fork releases the resources and marks the task failed.
DispatchAllocate ==
  /\ disp.pc = "idle"
  /\ TQ!WithStatus("Pending") # {}
  /\ \E t \in TQ!PendingHeads :
       \E r \in L!AllocateOutcomes(tasks[t].req) :
           /\ r.ok
           /\ \/ /\ nextPid <= MaxPids
                 /\ allocatedCpus' = r.ledgerCpus
                 /\ allocatedGpus' = r.ledgerGpus
                 /\ proc' = [p \in DOMAIN proc \cup {nextPid} |->
                              IF p = nextPid
                              THEN Execute(r.cpus, r.gpus)
                              ELSE proc[p]]
                 /\ nextPid' = nextPid + 1
                 /\ disp' = [pc |-> "spawned", task |-> t, pid |-> nextPid,
                             cpus |-> r.cpus, gpus |-> r.gpus]
                 /\ UNCHANGED <<tasks, disk, notified>>
              \/ /\ allocatedCpus' = r.ledgerCpus \ r.cpus
                 /\ allocatedGpus' = r.ledgerGpus \ r.gpus
                 /\ tasks' = TQ!SetTaskFailed(t)
                 /\ Notify(t, "Pending", "Failed")
                 /\ UNCHANGED <<proc, nextPid, disp, disk>>
  /\ UNCHANGED <<nextId, gen, mon, cli>>

\* setTaskRunning(), under the store's lock.  On success the thread goes on
\* to the callback; otherwise (the task left PENDING meanwhile) it SIGKILLs
\* the job's group and releases its resources.
DispatchSetRunning ==
  /\ disp.pc = "spawned"
  /\ IF TQ!CanSetRunning(disp.task)
     THEN /\ tasks' = TQ!SetTaskRunning(disp.task, disp.pid, disp.cpus, disp.gpus)
          /\ disp' = [disp EXCEPT !.pc = "notify"]
          /\ UNCHANGED <<allocatedCpus, allocatedGpus, proc>>
     ELSE /\ SetProc(disp.pid, IF proc[disp.pid].state = "alive"
                               THEN "zombie" ELSE proc[disp.pid].state)
          /\ L!Release(disp.cpus, disp.gpus)
          /\ UNCHANGED tasks
          /\ disp' = DispIdle
  /\ UNCHANGED <<nextId, disk, nextPid, gen, mon, cli, notified>>

\* notifyStateChange(old status of the copy -> RUNNING) once the store's
\* lock is released, then save() of the store as it is by now.
DispatchNotify ==
  /\ disp.pc = "notify"
  /\ Notify(disp.task, "Pending", "Running")
  /\ SaveStore
  /\ disp' = DispIdle
  /\ UNCHANGED <<tasks, nextId, allocatedCpus, allocatedGpus, proc, nextPid, gen,
                 mon, cli>>

-----------------------------------------------------------------------------
(* Monitoring thread: Scheduler::checkRunningTasks, handleTaskCompletion. *)

\* getRunningTasks(): a snapshot of <<id, pid>> of the running tasks.
MonitorScan ==
  /\ mon.pc = "idle"
  /\ TQ!WithStatus("Running") # {}
  /\ mon' = [MonIdle EXCEPT !.pc = "probe",
               !.todo = {<<i, tasks[i].pid>> : i \in TQ!WithStatus("Running")}]
  /\ UNCHANGED <<tasks, nextId, disk, allocatedCpus, allocatedGpus, proc,
                 nextPid, gen, disp, cli, notified>>

\* The snapshot entry handled next: the vector is in id order.
MonNext == CHOOSE e \in mon.todo : \A f \in mon.todo : e[1] <= f[1]

\* Drop the entry just handled and go on with the rest of the snapshot.
MonContinue ==
  LET rest == mon.todo \ {MonNext}
  IN  mon' = IF rest = {} THEN MonIdle
             ELSE [MonIdle EXCEPT !.pc = "probe", !.todo = rest]

\* Mutation: checkStatus takes any waitpid() result as "exited" (result 0
\* of WNOHANG misread).
MonitorProbeAlwaysExited ==
  /\ mon.pc = "probe"
  /\ LET e == MonNext
         p == e[2]
     IN  /\ mon' = [mon EXCEPT !.pc = "get", !.cur = e[1]]
         /\ IF OurChild(p) /\ proc[p].state = "zombie"
            THEN SetProc(p, "reaped")
            ELSE UNCHANGED proc
  /\ UNCHANGED <<tasks, nextId, disk, allocatedCpus, allocatedGpus, nextPid,
                 gen, disp, cli, notified>>

\* checkStatus(pid): waitpid(WNOHANG).  Still running: next entry.
\* Reaped now, or waitpid failing (already reaped, not our child): the
\* task is handed to handleTaskCompletion.
MonitorProbe ==
  /\ mon.pc = "probe"
  /\ LET e == MonNext
         p == e[2]
     IN  IF OurChild(p) /\ proc[p].state = "alive"
         THEN /\ MonContinue
              /\ UNCHANGED proc
         ELSE /\ mon' = [mon EXCEPT !.pc = "get", !.cur = e[1]]
              /\ IF OurChild(p) /\ proc[p].state = "zombie"
                 THEN SetProc(p, "reaped")
                 ELSE UNCHANGED proc
  /\ UNCHANGED <<tasks, nextId, disk, allocatedCpus, allocatedGpus, nextPid,
                 gen, disp, cli, notified>>

\* handleTaskCompletion: getTask(); a task that is gone ends the handler.
MonitorGetTask ==
  /\ mon.pc = "get"
  /\ IF mon.cur \in DOMAIN tasks
     THEN mon' = [mon EXCEPT !.pc = "release", !.copy = tasks[mon.cur]]
     ELSE MonContinue
  /\ UNCHANGED <<tasks, nextId, disk, allocatedCpus, allocatedGpus, proc,
                 nextPid, gen, disp, cli, notified>>

\* release(task->allocated_cpus, task->allocated_gpus) of the copy.
MonitorRelease ==
  /\ mon.pc = "release"
  /\ L!Release(mon.copy.cpus, mon.copy.gpus)
  /\ mon' = [mon EXCEPT !.pc = "complete"]
  /\ UNCHANGED <<tasks, nextId, disk, proc, nextPid, gen, disp, cli, notified>>

\* setTaskCompleted() under the store's lock (either exit code).
MonitorComplete ==
  /\ mon.pc = "complete"
  /\ tasks' = TQ!SetTaskCompleted(mon.cur)
  /\ mon' = [mon EXCEPT !.pc = "notify"]
  /\ UNCHANGED <<nextId, disk, allocatedCpus, allocatedGpus, proc, nextPid, gen,
                 disp, cli, notified>>

\* notifyStateChange(old status of the copy -> COMPLETED), then save().
MonitorNotify ==
  /\ mon.pc = "notify"
  /\ Notify(mon.cur, mon.copy.status, "Completed")
  /\ SaveStore
  /\ MonContinue
  /\ UNCHANGED <<tasks, nextId, allocatedCpus, allocatedGpus, proc, nextPid, gen,
                 disp, cli>>

-----------------------------------------------------------------------------
(* Client threads: Server::handleSubmit, handleDelete (one id per         *)
(* request), handleDeleteAll, and the Scheduler::terminateTask calls they *)
(* make.                                                                   *)

\* handleSubmit: submit(), stamped with system_clock::now() (this second
\* or a later one), then save().  Bounded by MaxTasks.
Submit(req) ==
  /\ nextId <= MaxTasks
  /\ \E sec \in clock .. MaxSeconds :
       /\ tasks' = TQ!Submitted(req, sec)
       /\ clock' = sec
  /\ nextId' = nextId + 1
  /\ disk' = TQ!Saved(tasks', nextId')
  /\ UNCHANGED <<allocatedCpus, allocatedGpus, proc, nextPid, gen, disp, mon,
                 cli, notified>>

\* The end of handleDelete: save() the store t it leaves.
ClientDone(c, t) ==
  /\ cli' = [cli EXCEPT ![c] = CliIdle]
  /\ disk' = TQ!Saved(t, nextId)

\* One id of the request is dealt with, leaving the store t.  handleDelete
\* saves and ends; handleDeleteAll goes on with its snapshot, and only
\* terminateTask's own save (saved) touches the file.
Handled(c, t, saved) ==
  IF cli[c].mode = "del"
  THEN ClientDone(c, t)
  ELSE /\ cli' = [cli EXCEPT ![c].pc = "all_next"]
       /\ IF saved THEN disk' = TQ!Saved(t, nextId) ELSE UNCHANGED disk

\* handleDelete: getTask(id) and branch on the status it read.
ClientDeleteStart(c, id) ==
  /\ "del" \in RequestKinds
  /\ cli[c].pc = "idle"
  /\ IF id \notin DOMAIN tasks
     THEN ClientDone(c, tasks)
     ELSE /\ cli' = [cli EXCEPT ![c] =
                       [CliIdle EXCEPT !.id = id,
                          !.pc = IF tasks[id].status = "Running"
                                 THEN "term_get" ELSE "delete"]]
          /\ UNCHANGED disk
  /\ UNCHANGED <<tasks, nextId, allocatedCpus, allocatedGpus, proc, nextPid,
                 gen, disp, mon, notified>>

\* The Pending and terminal branches: deleteTask(id), which erases the task
\* whatever its status is by now.
ClientDelete(c) ==
  /\ cli[c].pc = "delete"
  /\ tasks' = TQ!DeleteTask(cli[c].id)
  /\ Handled(c, tasks', FALSE)
  /\ UNCHANGED <<nextId, allocatedCpus, allocatedGpus, proc, nextPid, gen,
                 disp, mon, notified>>

\* terminateTask returned false: both handlers retry once (force is
\* ignored, so the retry is the same call), then give up on the id.
TermFalse(c) ==
  IF cli[c].attempt = 1
  THEN /\ cli' = [cli EXCEPT ![c].pc = "term_get", ![c].attempt = 2]
       /\ UNCHANGED disk
  ELSE Handled(c, tasks, FALSE)

\* terminateTask: getTask(); not Running (or no pid) returns false.
TermGet(c) ==
  /\ cli[c].pc = "term_get"
  /\ LET id == cli[c].id
     IN  IF id \in DOMAIN tasks /\ tasks[id].status = "Running"
                                /\ tasks[id].pid > 0
         THEN /\ cli' = [cli EXCEPT ![c].pc = "kill", ![c].copy = tasks[id]]
              /\ UNCHANGED disk
         ELSE TermFalse(c)
  /\ UNCHANGED <<tasks, nextId, allocatedCpus, allocatedGpus, proc, nextPid,
                 gen, disp, mon, notified>>

\* terminate(pid, SIGTERM): kill(-pid), then kill(pid).  It fails only when
\* no process-table entry is left (ESRCH); the job may exit on SIGTERM or
\* ignore it.
TermKill(c) ==
  /\ cli[c].pc = "kill"
  /\ LET p == cli[c].copy.pid
     IN  IF Exists(p)
         THEN /\ cli' = [cli EXCEPT ![c].pc = "wait1"]
              /\ \/ UNCHANGED proc
                 \/ /\ proc[p].state = "alive"
                    /\ SetProc(p, IF OurChild(p) THEN "zombie" ELSE "reaped")
              /\ UNCHANGED disk
         ELSE /\ TermFalse(c)
              /\ UNCHANGED proc
  /\ UNCHANGED <<tasks, nextId, allocatedCpus, allocatedGpus, nextPid, gen,
                 disp, mon, notified>>

\* One waitFor(pid, ...): polls checkStatus until it reports not running
\* (reaping a zombie child; waitpid failing on a non-child or a reaped pid
\* gives -1 at once), or times out while the job is alive.
WaitReturns(p) == ~(OurChild(p) /\ proc[p].state = "alive")
WaitReap(p) ==
  IF OurChild(p) /\ proc[p].state = "zombie" THEN SetProc(p, "reaped")
  ELSE UNCHANGED proc

\* waitFor(pid, 2000); on timeout terminate(pid, SIGKILL), which kills it.
TermWait1(c) ==
  /\ cli[c].pc = "wait1"
  /\ LET p == cli[c].copy.pid
     IN  IF WaitReturns(p)
         THEN /\ WaitReap(p)
              /\ cli' = [cli EXCEPT ![c].pc = "release"]
         ELSE /\ SetProc(p, "zombie")
              /\ cli' = [cli EXCEPT ![c].pc = "wait2"]
  /\ UNCHANGED <<tasks, nextId, disk, allocatedCpus, allocatedGpus, nextPid,
                 gen, disp, mon, notified>>

\* waitFor(pid, 1000) after the SIGKILL.
TermWait2(c) ==
  /\ cli[c].pc = "wait2"
  /\ WaitReap(cli[c].copy.pid)
  /\ cli' = [cli EXCEPT ![c].pc = "release"]
  /\ UNCHANGED <<tasks, nextId, disk, allocatedCpus, allocatedGpus, nextPid,
                 gen, disp, mon, notified>>

\* release(task->allocated_cpus, task->allocated_gpus) of the copy.
TermRelease(c) ==
  /\ cli[c].pc = "release"
  /\ L!Release(cli[c].copy.cpus, cli[c].copy.gpus)
  /\ cli' = [cli EXCEPT ![c].pc = "cancel"]
  /\ UNCHANGED <<tasks, nextId, disk, proc, nextPid, gen, disp, mon, notified>>

\* deleteTask() (the task is gone from the store).
TermDelete(c) ==
  /\ cli[c].pc = "cancel"
  /\ tasks' = TQ!DeleteTask(cli[c].id)
  /\ cli' = [cli EXCEPT ![c].pc = "t_notify"]
  /\ UNCHANGED <<nextId, disk, allocatedCpus, allocatedGpus, proc, nextPid, gen,
                 disp, mon, notified>>

\* notifyStateChange(Running -> Cancelled), save(); terminateTask returns
\* true (handleDelete then saves the same store once more).
TermNotify(c) ==
  /\ cli[c].pc = "t_notify"
  /\ Notify(cli[c].id, cli[c].copy.status, "Cancelled")
  /\ Handled(c, tasks, TRUE)
  /\ UNCHANGED <<tasks, nextId, allocatedCpus, allocatedGpus, proc, nextPid, gen,
                 disp, mon>>

\* handleDeleteAll: getAllTasks(), a snapshot of <<id, status>> pairs.
DeleteAllStart(c) ==
  /\ "all" \in RequestKinds
  /\ cli[c].pc = "idle"
  /\ cli' = [cli EXCEPT ![c] =
               [CliIdle EXCEPT !.mode = "all", !.pc = "all_next",
                  !.snap = {<<i, tasks[i].status>> : i \in DOMAIN tasks}]]
  /\ UNCHANGED <<tasks, nextId, disk, allocatedCpus, allocatedGpus, proc,
                 nextPid, gen, disp, mon, notified>>

\* The loop over the snapshot, in id order: a task that was Running goes to
\* terminateTask (retried once), any other to deleteTask; after the last
\* one the store is saved.
DeleteAllNext(c) ==
  /\ cli[c].pc = "all_next"
  /\ IF cli[c].snap = {}
     THEN ClientDone(c, tasks)
     ELSE LET e == CHOOSE x \in cli[c].snap :
                     \A y \in cli[c].snap : x[1] <= y[1]
          IN  /\ cli' = [cli EXCEPT ![c].id = e[1], ![c].attempt = 1,
                           ![c].snap = @ \ {e},
                           ![c].pc = IF e[2] = "Running" THEN "term_get"
                                     ELSE "delete"]
              /\ UNCHANGED disk
  /\ UNCHANGED <<tasks, nextId, allocatedCpus, allocatedGpus, proc, nextPid,
                 gen, disp, mon, notified>>

\* Mutation: the pending list is taken before the running one.
QueryOrderSwapped == <<"Pending", "Running">>

\* handleQueryQueue lists the tasks of these statuses in this order, each
\* by its own call (getRunningTasks, then getPendingTasks).
QueryOrder == <<"Running", "Pending">>

\* The list the query takes of status s: <<id, s>> of each task in it.
Listed(s) == {<<i, s>> : i \in TQ!WithStatus(s)}

\* handleQueryQueue(include_completed): the first list, under the store's
\* lock; the lock is released before the next call.
QueryStart(c, kind) ==
  /\ kind \in RequestKinds \cap {"query", "query_all"}
  /\ cli[c].pc = "idle"
  /\ cli' = [cli EXCEPT ![c] = [CliIdle EXCEPT !.mode = kind, !.pc = "q_pending",
                                   !.snap = Listed(QueryOrder[1])]]
  /\ UNCHANGED <<tasks, nextId, disk, allocatedCpus, allocatedGpus, proc,
                 nextPid, gen, disp, mon, notified>>

\* The second list; with include_completed the terminal tasks follow.
QueryPending(c) ==
  /\ cli[c].pc = "q_pending"
  /\ cli' = [cli EXCEPT ![c].snap = @ \cup Listed(QueryOrder[2]),
                        ![c].pc = IF cli[c].mode = "query_all" THEN "q_completed"
                                  ELSE "q_reply"]
  /\ UNCHANGED <<tasks, nextId, disk, allocatedCpus, allocatedGpus, proc,
                 nextPid, gen, disp, mon, notified>>

\* getAllTasks(), keeping the Completed, Failed and Cancelled ones.
QueryCompleted(c) ==
  /\ cli[c].pc = "q_completed"
  /\ cli' = [cli EXCEPT ![c].snap =
               @ \cup {<<i, tasks[i].status>> : i \in {j \in DOMAIN tasks :
                                                   tasks[j].status \in TQ!Terminal}},
                        ![c].pc = "q_reply"]
  /\ UNCHANGED <<tasks, nextId, disk, allocatedCpus, allocatedGpus, proc,
                 nextPid, gen, disp, mon, notified>>

\* QueueResponse::toJson of the lists, returned to the handler thread.
QueryReply(c) ==
  /\ cli[c].pc = "q_reply"
  /\ cli' = [cli EXCEPT ![c] = CliIdle]
  /\ UNCHANGED <<tasks, nextId, disk, allocatedCpus, allocatedGpus, proc,
                 nextPid, gen, disp, mon, notified>>

-----------------------------------------------------------------------------
(* The jobs and the daemon's lifetime.                                     *)

\* A job exits on its own.  A child of the running daemon stays a zombie
\* until waitpid() reaps it; one whose daemon is gone is reaped by init.
JobExit(p) ==
  /\ proc[p].state = "alive"
  /\ SetProc(p, IF OurChild(p) THEN "zombie" ELSE "reaped")
  /\ UNCHANGED <<tasks, nextId, disk, allocatedCpus, allocatedGpus, nextPid,
                 gen, disp, mon, cli, notified>>

\* Server::start's recovery: checkStatus(pid) of a task loaded as Running,
\* by daemon incarnation g: only a live child of g counts as running.
ProbeRunning(p, g) == proc[p].gen = g /\ proc[p].state = "alive"

\* Mutation: recovery keeps a loaded Running task Running whatever the
\* probe says (and, like the code, re-marks nothing in the ledger).
RecoveredKeepRunning(t, g) == t

Recovered(t, g) ==
  [i \in DOMAIN t |->
     IF t[i].status = "Running" /\ ~ProbeRunning(t[i].pid, g)
     THEN [t[i] EXCEPT !.status = "Failed"] ELSE t[i]]

\* Scheduler::stop clears running_ and joins both loop threads, each of
\* which sees the flag only between two passes.
SchedulerJoined == disp.pc = "idle" /\ mon.pc = "idle"

\* The daemon stops and starts again.  A graceful stop (Server::stop, on
\* SIGTERM or a shutdown request) joins the loops after their current pass
\* and saves; a crash saves nothing, and one that cuts a save short (when
\* TornSaves) leaves a file load() cannot parse.  Server::start then load()s,
\* runs the recovery above (without saving), and starts with a fresh
\* ResourceMonitor.  Jobs run in their own process groups and outlive the
\* daemon; their zombies are reaped by init.
Restart(graceful) ==
  /\ gen < MaxRestarts
  /\ graceful => /\ SchedulerJoined
                 /\ \A c \in Clients : cli[c].pc = "idle"
  /\ LET written == IF graceful THEN TQ!Saved(tasks, nextId) ELSE disk
     IN  \E d \in TQ!LoadOutcomes(written, TornSaves /\ ~graceful) :
           /\ disk' = d
           /\ tasks' = Recovered(TQ!Loaded(d), gen + 1)
           /\ nextId' = d.nextId
  /\ allocatedCpus' = {}
  /\ allocatedGpus' = {}
  /\ proc' = [p \in DOMAIN proc |->
                IF proc[p].state = "zombie" THEN [proc[p] EXCEPT !.state = "reaped"]
                ELSE proc[p]]
  /\ gen' = gen + 1
  /\ disp' = DispIdle
  /\ mon' = MonIdle
  /\ cli' = [c \in Clients |-> CliIdle]
  /\ notified' = [i \in TaskIds |-> <<>>]
  /\ UNCHANGED nextPid

-----------------------------------------------------------------------------
ClientStep(c) ==
  \/ DeleteAllNext(c) \/ ClientDelete(c) \/ TermGet(c) \/ TermKill(c) \/ TermWait1(c)
  \/ TermWait2(c) \/ TermRelease(c) \/ TermDelete(c) \/ TermNotify(c)
  \/ QueryPending(c) \/ QueryCompleted(c) \/ QueryReply(c)

MonitorStep ==
  MonitorScan \/ MonitorProbe \/ MonitorGetTask \/ MonitorRelease
  \/ MonitorComplete \/ MonitorNotify

\* finished records each task the store has ever shown as terminal.
RecordFinished ==
  finished' = finished \cup {i \in DOMAIN tasks' : tasks'[i].status \in TQ!Terminal}

\* A step that does not read the clock (all but a submission).
Tracked(A) == A /\ UNCHANGED clock /\ RecordFinished

Next ==
  \/ \E req \in Requests : Submit(req) /\ RecordFinished
  \/ Tracked(\/ DispatchAllocate \/ DispatchSetRunning \/ DispatchNotify
             \/ MonitorStep
             \/ \E c \in Clients, id \in TaskIds : ClientDeleteStart(c, id)
             \/ \E c \in Clients : DeleteAllStart(c)
             \/ \E c \in Clients, kind \in RequestKinds : QueryStart(c, kind)
             \/ \E c \in Clients : ClientStep(c)
             \/ \E p \in DOMAIN proc : JobExit(p)
             \/ \E graceful \in BOOLEAN : Restart(graceful))

\* The two scheduler loops run for the daemon's lifetime, sleeping between
\* passes, and a handler thread runs its request to the end: weak fairness
\* on each.  Clients, jobs and restarts get none.
Fairness ==
  /\ WF_vars(Tracked(DispatchAllocate)) /\ WF_vars(Tracked(DispatchSetRunning))
  /\ WF_vars(Tracked(DispatchNotify))
  /\ WF_vars(Tracked(MonitorStep))
  /\ \A c \in Clients : WF_vars(Tracked(ClientStep(c)))

Spec == Init /\ [][Next]_vars /\ Fairness

-----------------------------------------------------------------------------
(* Properties.                                                             *)

Live == {p \in DOMAIN proc : proc[p].state = "alive"}
Quiescent ==
  disp.pc = "idle" /\ mon.pc = "idle" /\ \A c \in Clients : cli[c].pc = "idle"
Transitions ==
  {<<"Pending", "Running">>, <<"Pending", "Failed">>, <<"Running", "Completed">>,
   <<"Running", "Failed">>, <<"Running", "Cancelled">>}

TypeOK ==
  /\ DOMAIN tasks \subseteq 1 .. nextId - 1
  /\ \A i \in DOMAIN tasks : TQ!IsTask(tasks[i])
  /\ allocatedCpus \subseteq L!Cpus /\ allocatedGpus \subseteq L!Gpus
  /\ DOMAIN proc = 1 .. nextPid - 1
  /\ \A p \in DOMAIN proc : proc[p].state \in {"alive", "zombie", "reaped"}
  /\ disp.pc \in {"idle", "spawned", "notify"}
  /\ mon.pc \in {"idle", "probe", "get", "release", "complete", "notify"}
  /\ clock \in 0 .. MaxSeconds /\ finished \subseteq TaskIds
  /\ \A c \in Clients : cli[c].pc \in
       {"idle", "all_next", "delete", "term_get", "kill", "wait1", "wait2",
        "release", "cancel", "t_notify", "q_pending", "q_completed", "q_reply"}

\* A queue listing ("myqueue queue", Server::handleQueryQueue) never shows
\* one task both running and pending.  Its lists come from separate calls
\* to the store, with the scheduler free to dispatch between them; only
\* taking the running list first, as the code does, rules this out.
QueryListsTaskOnce ==
  \A c \in Clients : \A i \in TaskIds :
    cli[c].mode \in {"query", "query_all"} =>
      ~(<<i, "Running">> \in cli[c].snap /\ <<i, "Pending">> \in cli[c].snap)

\* Spec section 5: no CPU or GPU is used by two running jobs at once, across
\* dispatch, completion, termination and restarts.
ExclusiveUse ==
  \A p, q \in Live : p # q =>
    /\ proc[p].cpus \cap proc[q].cpus = {}
    /\ proc[p].gpus \cap proc[q].gpus = {}

\* Every CPU and GPU a live job runs on is marked allocated in the ledger,
\* so allocate() cannot hand it to another task: release() by the monitor
\* (handleTaskCompletion) or by terminateTask happens only once the job
\* has stopped, and frees only that job's resources.
LedgerCoversLiveJobs ==
  \A p \in Live : proc[p].cpus \subseteq allocatedCpus
                  /\ proc[p].gpus \subseteq allocatedGpus

\* When no thread is in the middle of a handler, the ledger holds exactly
\* the resources of the tasks the store lists as Running: nothing leaks
\* when a task is deleted, fails to launch or completes.
LedgerMatchesRunningTasks ==
  Quiescent =>
    /\ allocatedCpus = UNION {tasks[i].cpus : i \in TQ!WithStatus("Running")}
    /\ allocatedGpus = UNION {tasks[i].gpus : i \in TQ!WithStatus("Running")}

\* Spec section 5: the state-change callback fires for a task in the order
\* of its transitions, each a transition of the state machine, starting at
\* Pending, and nothing follows a terminal state (Pending->Running before
\* Running->Completed, and Running->Cancelled fires once).
CallbackOrder ==
  \A i \in TaskIds :
    LET s == notified[i] IN
    \A k \in 1 .. Len(s) :
      /\ s[k] \in Transitions
      /\ k = 1 => s[k][1] = "Pending"
      /\ k > 1 => s[k][1] = s[k-1][2]

\* A task the store shows as Completed, Failed or Cancelled has no job still
\* running.  Spec section 5 has recovery (Server::start) fail a loaded
\* Running task only when its job is gone; the monitor completes a task
\* only after checkStatus() saw its job gone.
TerminalTaskHasNoLiveJob ==
  \A i \in DOMAIN tasks :
    tasks[i].status \in TQ!Terminal /\ tasks[i].pid > 0 =>
      proc[tasks[i].pid].state # "alive"

\* Spec section 5: tasks are dispatched in FIFO order of submission, so the
\* task tryScheduleNext has just forked is the oldest pending one, the one
\* of least id.  getPendingTasks sorts by submit_time with std::sort and
\* no tie-break, so this rests on the order the store hands it the tasks.
FifoDispatch ==
  disp.pc = "spawned" =>
    \A u \in TQ!WithStatus("Pending") \ {disp.task} : u > disp.task

\* A task the store (and so every query) has shown as Completed, Failed or
\* Cancelled never shows up Pending or Running again, across restarts:
\* spec 4.6.1 persists a launch failure, and every other terminal
\* transition is saved in the same step.
TerminalIsFinal ==
  \A i \in finished : i \in DOMAIN tasks => tasks[i].status \in TQ!Terminal

\* The status an id has in the store: listed, removed (below next_id_ but
\* no longer listed) or not yet issued.
LifeOf(i) ==
  IF i \in DOMAIN tasks THEN tasks[i].status
  ELSE IF i < nextId THEN "Removed" ELSE "Unused"

Lifecycle == INSTANCE TaskLifecycle WITH Ids <- TaskIds,
               life <- [i \in TaskIds |-> LifeOf(i)]

\* Spec section 3: while the daemon runs, the store implements the task
\* lifecycle.  Whatever the dispatch and monitor threads and the delete
\* handlers (with terminateTask) interleave, each step moves at most one
\* id along an edge of the state diagram, ids are issued in increasing
\* order, and a deleted id is never listed again.
LifecycleRefinement == Lifecycle!Spec

\* Every job that exits is eventually reaped (by the monitor's waitpid(),
\* terminateTask's waitFor(), or by init once the daemon is gone): no
\* zombie is left behind for good.
ZombiesReaped ==
  \A p \in 1 .. MaxPids :
    (p \in DOMAIN proc /\ proc[p].state = "zombie") ~> (p \in DOMAIN proc /\ proc[p].state = "reaped")

\* The scripts all end: each job, while alive, eventually exits.  This is an
\* assumption about the jobs, which the daemon does not provide.
JobsEnd == \A p \in 1 .. MaxPids : WF_vars(Tracked(p \in DOMAIN proc /\ JobExit(p)))

\* If every job ends, every submitted task eventually finishes: the monitor
\* completes each exited job's task and releases its sets, and the FIFO
\* dispatcher then starts the next pending task on what was released
\* (tryScheduleNext and checkRunningTasks, end to end).
TasksFinish ==
  JobsEnd => \A i \in TaskIds :
               (i \in DOMAIN tasks) ~> (i \notin DOMAIN tasks \/ tasks[i].status \in TQ!Terminal)
=============================================================================
