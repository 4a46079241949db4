# TLA+ models of myqueue

myqueue is a single-host GPU/CPU batch scheduler. A daemon
(`src/src/core/server.cpp`) does five things:

- keeps a persistent task store;
- reserves CPU cores and GPUs for each task;
- forks the task's script in its own process group and watches it;
- serves the `myqueue` command line over a Unix socket;
- lets clients submit and delete tasks over that socket.

This directory holds four things:

- TLA+ models of the daemon's concurrent core and of its socket layer;
- models of the id-range parser of `myqueue del`;
- the TLC configurations that check these models;
- what the checks show.

## 1. The system

### Parts and their state

| Part | Source | State |
|---|---|---|
| Task store | `task_queue.cpp` | `tasks_` (id → Task), `next_id_`, the file `tasks.json`; one mutex per method |
| GPU probe and ledger | `gpu_monitor.cpp` | `allocated_gpus_`; nvidia-smi answers (per GPU: under threshold, over it, or no line) |
| CPU probe and ledger | `cpu_monitor.cpp` | `allocated_cpus_`; /proc/stat samples (3-second sustained-idle check) |
| Resource monitor | `resource_monitor.cpp` | `excluded_cpus_/gpus_`; `allocate()` (GPU phase, affinity group, CPU phase, rollback) and `release()` under one mutex |
| Executor | `executor.cpp` | none of its own: it forks into a new process group, probes (`waitpid WNOHANG`), signals the group (`kill(-pid)`) and polls (`waitFor`) |
| Scheduler | `scheduler.cpp` | a dispatch thread (`tryScheduleNext`), a monitor thread (`checkRunningTasks`, `handleTaskCompletion`), `terminateTask`, the state-change callback |
| Server | `server.cpp` | `start` (load, recovery, start the loops), `run` (poll `shutdown_requested_`), `stop` (IPC, then loops, then save), the request handlers |
| IPC server | `ipc_server.cpp` | `running_`, the listening socket, an accept thread, one handler thread per connection with a 30 s receive timeout |
| IPC client, CLI | `ipc_client.cpp`, `cli/main.cpp` | one connection per command; a read timeout; the batch submit loop; argument parsing (`parseIdRange`, `handleServer`'s flags) |
| Configuration | `config.cpp`, `config.h` | the `Config` members `fromArgs` fills from the `myqueue server` command line before the daemon starts |

### How the parts interact

Three kinds of daemon thread share the store and the ledger.

**Dispatch thread.** It takes the pending task with the earliest submit time and calls `allocate()`. It then forks the job, calls `setTaskRunning()`, notifies and saves.

**Monitor thread.** It snapshots the running tasks and probes each one's pid. When a job has ended, it:

1. re-reads the task;
2. calls `release()` with the task's sets;
3. calls `setTaskCompleted()`;
4. notifies and saves.

**Handler threads (one per connection).** Each reads requests until the client closes, the read times out, or a SHUTDOWN arrives.

- *Delete* reads the task's status and branches on it:
  - A pending or finished task: `deleteTask()`.
  - A running task: `terminateTask()`, in this order:
    1. re-read the task;
    2. send SIGTERM;
    3. wait up to 2 s, then send SIGKILL if the job is still alive;
    4. wait 1 s;
    5. call `release()` with the sets it read;
    6. `deleteTask()`, notify Running→Cancelled, and save.
- *Delete-all* works the same way, over one snapshot of all tasks.

Every store or ledger call is atomic. Nothing is held across calls, so each thread acts in later steps on values it read in earlier ones.

The main thread polls `shutdown_requested_`. A SIGTERM or a SHUTDOWN request sets it. `Server::stop` then runs in this order:

1. `IPCServer::stop`: close the listening socket, join the accept thread, then join every handler thread.
2. Join the scheduler loops.
3. Save.

Jobs run in their own process groups and outlive the daemon. On start the daemon loads `tasks.json` and probes each task that was Running. It probes with `waitpid()`, so the new daemon cannot wait on its predecessor's children.

## 2. Modules

| Module | Models | Kind |
|---|---|---|
| `Ledger` | `ResourceMonitor::allocate/release`, `GPUMonitor::executeNvidiaSmi/parseNvidiaSmiOutput/queryGPUs/isGPUBusy/getAvailableGPUs`, `CPUMonitor::getAffinityGroup/getCPURangeForGroup/getAvailableCPUs/calculateUtilization/getCPUUtilization/checkCPUAvailable` | operators; state `allocatedCpus`, `allocatedGpus` |
| `ResourcePool` | what the ledger promises: grants of free, non-excluded resources matching the request | abstract specification |
| `LedgerClients` | holders calling `allocate()`/`release()` in any interleaving; refines `ResourcePool` | specification |
| `TaskLifecycle` | what the store promises about one id (spec §3): ids issued in increasing order, Pending→Running→Completed, Pending/Running→Failed, removal from any state, no id listed again | abstract specification; `MyQueue` refines it |
| `TaskQueue` | `submit`, `getPendingTasks` (sort by submit time), `setTaskRunning/Completed/Failed`, `deleteTask`, `save`, `load`; `Task::toJson/fromJson` and the status name conversions (`task.cpp`, `task.h`) | operators on `tasks`, `nextId`, `disk` |
| `MyQueue` | the daemon: dispatch thread, monitor thread, delete, delete-all and queue-query handlers with `terminateTask`, `Executor::execute`, jobs, crashes and restarts | specification composing `TaskQueue` and `Ledger` (INSTANCE) |
| `Ipc` | `IPCServer` start/accept/handle/stop, `IPCClient` connect/send/receive with their timeouts, `Server::run`'s shutdown, the batch submit loop, `myqueue delete` (by id or `all`) and `myqueue stop` | specification (EXTENDS `Protocol`) |
| `Protocol` | `MsgType` and its names, the frame of `writeMessage`/`readMessage`, the answers of `handleSubmit`/`handleDelete`/`handleDeleteAll`/`handleShutdown`, and the decoding in `IPCClient::submit/deleteTasks/deleteAll/shutdown` | operators on JSON values |
| `IdRange` | `TaskQueue::parseIdRange` and `std::stoull` over uint64_t of `Width` bits | RECURSIVE operators, checked against spec §8 |
| `CliArgs` | `Config::fromArgs` (with `expandPath`, `stoul`, `stod` and `parseIntList`'s `getline`/`stoi` over the characters of a value), `handleServer`'s own flag loop, and `handleSubmit`'s option loop with `getAbsolutePath` up to the request it sends | RECURSIVE operators, checked against a reference reading of the command line; EXTENDS `IdRange` |
| `MCLedger`, `MCMyQueue`, `MCCliArgs` | constants for TLC | MC modules |

### Ledger

`allocate()` runs entirely under `ResourceMonitor::mutex_`, so one call is one step. Its inputs are nondeterministic:

- the answer of nvidia-smi, one of `GpuAnswers`;
- for each core the CPU phase may test, the samples its sustained-idle check reads, each one of `CpuSamples`;
- the shuffle order of the CPU candidates.

The probes are modelled from those inputs on:

- **GPU.** An answer is a sequence of lines and a line is a sequence of fields. A field is a number, or `Junk` for one `stoi`/`stoul` rejects (such as "[N/A]"). `ParseNvidiaSmiOutput` keeps a line only when its first three fields convert. `QueryGPUs` replaces an empty answer (`NoAnswer`: popen or nvidia-smi failed) by all-busy entries. `Reading` gives each GPU its first entry's verdict (`memory_used > threshold` is busy) or "missing".
- **CPU.** A sample is what one `getCPUUtilization()` reads. Either the core's line was missing from /proc/stat (`Gone`, the -1 sentinel), or the sample holds how far the busy, idle and iowait counters advanced. `UtilAtOrAbove` is `calculateUtilization` in unsigned arithmetic of `CounterWidth` bits, with the 0 for an unchanged total and the clamp to 100. `SustainedIdle` is the loop of `checkCPUAvailable` over `CheckCount = duration / interval` samples (at least 1).

`AllocateOutcomes(req)` is the set of every result, each with the ledger it leaves behind. The model keeps:

- the explicit and automatic paths of both phases;
- the shortfall release inside `allocateCPUs`;
- the GPU rollback in `allocate`.

The affinity split is hard-coded in the source (GPU < 4, CPU 32, 64). The model makes it three constants so that it can be scaled down.

### MyQueue: variables

| Variable | Models |
|---|---|
| `tasks`, `nextId`, `disk` | the store and `tasks.json`; `disk` holds each task as `Task::toJson` writes it (status by lower-case name, submit time as a whole second), and a restart reads it back through `Task::fromJson` |
| `allocatedCpus`, `allocatedGpus` | the ledger |
| `proc[pid]` | the kernel's view of each forked job: alive, zombie or reaped, its sets, and the daemon incarnation (`gen`) that forked it |
| `disp`, `mon`, `cli[c]` | each thread's program counter and the values it read in earlier steps |
| `notified[id]` | the callbacks fired for a task |
| `clock` | the second of `system_clock` at the last submit |
| `finished` | history: ids the store has ever shown as Completed, Failed or Cancelled |

### MyQueue: actions

Each action is one store, ledger or system call. The state-change callback (`notifyStateChange`) runs after the store's lock is released, so it is a step of its own, and the `save()` that follows it is part of that step. The thread's `pc` records that it is between the two.

**Dispatch thread:**

- `DispatchAllocate`: `getPendingTasks()` and `allocate()` for a front task, then `Execute`. A fork can fail; then the thread releases, marks the task Failed and notifies, without a save.
- `DispatchSetRunning`: `setTaskRunning()`. If it fails, the job gets SIGKILL and its resources are released.
- `DispatchNotify`: the callback Pending→Running, then `save()` of the store as it is by then.

**Monitor thread:** `MonitorScan`, `MonitorProbe` (`checkStatus`), `MonitorGetTask`, `MonitorRelease`, `MonitorComplete` (`setTaskCompleted`), `MonitorNotify` (the callback from the copy's status to Completed, then `save()`).

**Handler threads:**

- `Submit`: the submit time is a second at or after the clock.
- `ClientDeleteStart`, `ClientDelete`.
- `TermGet`, `TermKill`, `TermWait1`, `TermWait2`, `TermRelease`, `TermDelete` (`deleteTask`), `TermNotify` (the callback Running→Cancelled, then `save()`). `TermFalse` is the one retry, which is identical because `force` is ignored.
- `DeleteAllStart` takes the snapshot. `DeleteAllNext` handles one task of it.
- `QueryStart`, `QueryPending`, `QueryCompleted`, `QueryReply`: `handleQueryQueue`'s three store calls (`getRunningTasks`, `getPendingTasks`, and with `include_completed` `getAllTasks`), each under the store's lock, with the loops free to run between them. `QueryOrder` is the order of the first two.

**Environment:**

- `JobExit`.
- `Restart(graceful)`:
  - a graceful stop joins the loops and saves;
  - a crash saves nothing, and with `TornSaves` it may cut a save short, so that `load()` cannot parse the file;
  - then `load()` and recovery through `checkStatus`;
  - a fresh ledger;
  - init reaps the old zombies.

`getPendingTasks` sorts by `submit_time` alone with `std::sort`. `Task::toJson` writes whole seconds. Each task therefore carries its second and whether its time is still exact, that is, never saved and loaded. `PendingHeads` is every task that no other pending task precedes: the sort leaves equal times in an unspecified order.

### Ipc

The state of the `Ipc` module:

- `running`, `listening` and `shutdownReq`;
- the main thread's program counter (`run`, `stop`, `join_accept`, `join_clients`, `exited`);
- the accept thread and the kernel backlog;
- per connection: the handler thread's program counter and the two byte streams;
- per CLI process: a program counter, the IPCClient call it makes, and what each request returned.

A frame is the JSON object `{"type", "payload"}` that `writeMessage` builds. A JSON value is a tagged record (`JObj`, `JArr`, `JNum`, `JStr`, `JBool`), as nlohmann::json is a tagged union, so `contains` and `get<T>` are modelled by what they test. The handler decodes a request with `ReadOk`/`ReadMessage` and answers with any of the objects `HandleRequest` allows. That is a choice over what the store and the file system hold, for example whether `stat()` finds the workdir. The CLI decodes the answer with the IPCClient call it made (`SubmitResult`, `DeleteResults`, `DeleteAllResult`, `ShutdownResult`). A failed read gives the call's failure value (`Failed`): no id, an empty vector, no counts, or false. A submitted task's id is named by its directory's number, so a batch's ids are 1..Batch.

CLI processes in `Submitters` run a batch submit: one SUBMIT per directory, on one connection, going on after a failed one (cli/main.cpp:316-334). Those in `Deleters` send one DELETE_TASK, or one DELETE_ALL when the argument is `all`; Init chooses the argument. Those in `Stoppers` send one SHUTDOWN.

Decoding the delete answer shows a mismatch between the two ends. `handleDelete` sends `results` as objects `{"id","success","error"}`, but `DeleteResponse::fromJson` reads it as `std::vector<bool>`. The read throws, so `deleteTasks` returns an empty vector for every answer. This is listed as a hazard (main.cpp:804).

A client read fails on EOF or on its timeout. A handler read fails when the client has closed or its 30 s `SO_RCVTIMEO` fires. Both are modelled as reads that may fail when nothing is in the stream. `Signal` is a SIGTERM taken by the main thread.

### IdRange

The module is `parseIdRange` exactly as written:

- `find('-')`;
- a range when the '-' is neither first nor last;
- `std::stoull` on each side, which skips white space, accepts a sign, negates modulo 2^64, and throws on no digits or overflow;
- a loop `for (i = start; i <= end; ++i)` that never ends when `end` is the largest value.

Its reference, from spec §8:

- "A-B" is the ids A to B, empty when B < A;
- "N" is the id N.

### CliArgs

`Config::fromArgs` walks `argv` from index 1. An option that takes a value and is not last consumes the next argument (`++i`), whatever it is. A value `stoul` or `stod` refuses leaves the member as it was. `parseIntList` splits on ',' with `getline` (no empty last piece after a trailing comma) and keeps the pieces `stoi` accepts. `ParseArgs` is that loop as a recursion over the remaining arguments. `handleServer` then reads `argv` again from index 2 and sets `--foreground`/`-f` and `--init` wherever they appear (`ServerFlags`).

An option name is one symbol (`<<"--log">>`). Every conversion stops at its leading '-' and a letter, so its other characters never matter. A value is a sequence of characters.

The reference (`RefConfig`) reads a well-formed command line declaratively:

- each member comes from the last occurrence of its option whose value converts;
- a list is the entries between its commas that fit an int, in the order written;
- `--joblog` counts anywhere.

A command line is well-formed when every value option that is not last is followed by a value that is not an option, and a number or list value is written in digits or has none.

`handleSubmit` (`myqueue sb <script> [options]`) runs its own loop from `argv[3]` (`ParseSubmit`). Every option takes a value. `--ncpu`/`-n` and `--ngpu`/`-g` go through an unguarded `stoi`, so a count it refuses throws out of `main` and aborts the CLI. Paths go through `getAbsolutePath`. Without `-w` or `-ws`, the working directory is the workdir (`SubmitCommand`). `RefSubmit` reads a well-formed `sb` line the same declarative way as `RefConfig`: for each setting, the last of its long and short names given wins; defaults are one CPU and one GPU; the CLI aborts exactly when some count is not an int.

`config.h` as in the tree declares no `excluded_cpus` or `excluded_gpus`, although `fromArgs`, `toJson` and `fromJson` assign them. The model follows `config.cpp` as written.

## 3. Runs

The MyQueue runs use two GPUs and two cores, one of each per affinity group. Two one-GPU tasks can then run side by side, and a third must reuse what one of them released.

The CPU range end is 3. This lies past the two cores, just as the code's 64 lies past the core count of a smaller machine, and it exercises the clip to `total_cpus`.

`CHECK_DEADLOCK FALSE` is set where the real system stops or idles:

- in MyQueue, once every id is used and every task has finished, the daemon's loops keep ticking on nothing;
- in Ipc, the daemon process exits;
- in IdRange and CliArgs, each argument and command line is parsed once.

### Pass runs

| Run | Config | What it shows |
|---|---|---|
| `ledger` | `MCLedger.cfg` | Three holders interleave four request shapes: auto, CPU-only, cross-group GPUs, explicit cross-group ids. Over every probe answer and shuffle: the ledger is exactly the union of holdings (`LedgerAccountsForHoldings`); automatic CPU placement stays in the GPUs' affinity group (`AutoPlacementAffinity`); only cores every sample showed below the threshold, computed directly from the counters, are placed (`PlacesOnlySustainedIdleCpus`); and the ledger refines `ResourcePool` (`PoolRefinement`). 4 cores (one excluded), 4 GPUs. nvidia-smi fails or prints each GPU at exactly the 2 MB threshold or 1 MB over it. A check takes two samples, each quiet or exactly at the 50% threshold. |
| `daemon` | `MCMyQueue.cfg` | The dispatch and monitor threads with three tasks and no deletes or restarts: every core and GPU a live job uses is marked in the ledger (`LedgerCoversLiveJobs`), and at rest the ledger is exactly the Running tasks' sets (`LedgerMatchesRunningTasks`). One liveness property: `TasksFinish` (if every job ends, every submitted task finishes, so the monitor's releases keep the FIFO queue moving). |
| `daemon_deletes` | `MCMyQueueClients.cfg` | A client deletes one task or all tasks at any point. The store refines `TaskLifecycle` (`LifecycleRefinement`). The mapping sends a listed id to its status, an unlisted id below `nextId` to "Removed" and any other id to "Unused". Every interleaving of the two loops with the delete handlers thus moves one id at a time along an edge of the state diagram and never lists a deleted id again. Across restarts the property does not hold: a crash can reload a file older than the store, as `fork_fail_unsaved` shows, and a torn save resets `next_id` to 1. The client also sends queue queries (`RequestKinds` includes "query" and "query_all"): no listing shows a task both running and pending (`QueryListsTaskOnce`). This holds only because the running list is taken before the pending one. A listing can still omit a task dispatched between the two calls, or show a task both running and completed; both are listed as hazards. |
| `daemon_restart` | `MCMyQueueRestart.cfg` | With one crash or graceful restart, including a crash that tears `tasks.json`, the ledger still matches the Running tasks at rest. |
| `id_range` | `MCCliArgs.cfg` | For every argument of up to 4 characters over `0 1 9 space + - x`, with a 4-bit uint64_t: every id is in range (`TypeOK`), and every well-formed argument gives exactly the ids of spec §8, in increasing order (`AgreesWithReference`). For every `myqueue server` command line of up to 4 arguments (option names and the values of `MCValues`), `fromArgs` and `handleServer` read a well-formed one as the reference does (`FromArgsAgreesWithReference`). The same holds for `myqueue sb` lines and `handleSubmit` (`SubmitArgsAgreesWithReference`). This includes an earlier value kept when a later one does not convert, an unsigned overflow, an int overflow in a list, an empty entry and `~` expansion. |
| `ipc` | `MCIpc.cfg` | A submit, a `myqueue delete` (by id or `all`) and a `myqueue stop` race the daemon's shutdown, by request or by SIGTERM. `stop()` returns only after the accept thread and every handler thread have ended (`NoHandlerOutlivesStop`). It does return, even when a CLI process hangs with its connection open (`StopCompletes`, under the fairness below). `myqueue stop` reports success only once the daemon has set `shutdown_requested_` (`StopAcknowledgedMeansStopping`), even though its read can time out before the answer comes. |

### Violation runs

Each violation run checks one property and reproduces a defect. The findings are in `PROJECT.json`.

| Run | Config | Property | What TLC finds |
|---|---|---|---|
| `delete_race` | `MCMyQueueDeleteRace.cfg` | `LedgerMatchesRunningTasks` | A client reads a task as Pending (server.cpp:401), and the dispatcher then starts it. The client's `deleteTask` (server.cpp:423) erases the Running task. Its job runs on unsupervised, and its core and GPU stay reserved forever. |
| `stale_release` | `MCMyQueueStaleRelease.cfg` | `LedgerCoversLiveJobs` | While `terminateTask` waits, the monitor reaps the job, releases and completes the task, and the dispatcher gives core 0 and GPU 0 to a new task. `terminateTask` then releases its stale copy (scheduler.cpp:200), freeing the new task's resources while its job runs. |
| `recovery_shared` | `MCMyQueueRecovery.cfg` | `ExclusiveUse` | A crash after fork and before the save of Running reloads the task as Pending. It is dispatched a second time onto the same core and GPU while the first job still runs. A torn `tasks.json` leads there too, by a longer path. |
| `fork_fail_unsaved` | `MCMyQueueForkFailUnsaved.cfg` | `TerminalIsFinal` | A fork failure marks the task Failed and notifies but never saves (scheduler.cpp:111). After a crash the task is Pending again and runs after all. Spec 4.6.1 says the failure is persisted. |
| `id_range_wrap` | `MCIdRangeWrap.cfg` | `OnlyWrittenIds` | `std::stoull` accepts '-' and wraps (task_queue.cpp:284): "-1" names the largest id, "1--3" a range of almost 2^64 ids, and "1--1" a loop that never ends. |
| `ipc_late_response` | `MCIpcLateResponse.cfg` | `ResponseMatchesRequest` | A SUBMIT times out on the client, and the batch goes on on the same connection (ipc_client.cpp:343). The late answer to the timed-out SUBMIT is then read as the answer to the next one, so the CLI reports the wrong task id. |

### Further configurations

These configurations are not part of the run list. Each reproduces a defect with the same modules, and `tlc -config X.cfg MCMyQueue` (or `MCLedger`) shows the trace.

| Config | Property | What TLC finds |
|---|---|---|
| `MCLedgerMissingGpu.cfg` | `PlacesOnlyReportedIdleGpus` | nvidia-smi may print "[N/A]" for a GPU's memory. `parseNvidiaSmiOutput` then drops the line, and an automatic allocation hands out that GPU on the ledger's word alone (gpu_monitor.cpp:270-272). Spec §4.1 says such a GPU is busy. |
| `MCMyQueueCallbackRace.cfg` | `CallbackOrder` | No clients and no restarts. The dispatcher calls `notifyStateChange(Pending→Running)` after `setTaskRunning()` has released the store's lock (scheduler.cpp:118-119). Meanwhile the monitor sees the task Running, its job exits, and the monitor fires Running→Completed first. Spec §5 says Pending→Running precedes Running→Completed for the same task. |
| `MCMyQueueDoubleCallback.cfg` | `CallbackOrder` | The `stale_release` race fires Running→Completed and then Running→Cancelled for one task. Spec §4.6.3 says the callback fires once. |
| `MCMyQueueZombie.cfg` | `ZombiesReaped` | A Pending task is deleted between fork and `setTaskRunning()`. The dispatcher SIGKILLs the job (scheduler.cpp:127) but never waits for it, so it stays a zombie while the daemon lives. |
| `MCMyQueueRecoveryFailed.cfg` | `TerminalTaskHasNoLiveJob` | After a restart, `checkStatus` on a job of the previous daemon gets ECHILD and reports it ended (executor.cpp:260-265). Recovery marks the task Failed (server.cpp:109) while its job is alive. |
| `MCMyQueueFifoReload.cfg` | `FifoDispatch` | Reloaded tasks lose the fraction of their submit second, so a task submitted later in the same second can be dispatched first. |
| `MCMyQueueDeleteAllRace.cfg` | `LedgerMatchesRunningTasks` | Delete-all decides from its snapshot (server.cpp:469). A task that was Pending in it but has started since is erased while Running. |

### Mutants

Each property of each pass run is also checked against a mutated form of a mapped definition, a plausible bug in the code it translates. TLC finds the property violated for every one. They are listed in `PROJECT.json`:

- the CPU range without the clip to `total_cpus`;
- a CPU failure without GPU rollback;
- all placements in group 0;
- the GPU scan stopping one late;
- the sustained-idle loop stopping one sample early;
- the probe misreading WNOHANG's 0;
- fork failure without release;
- recovery keeping tasks Running without re-marking the ledger;
- `submit()` numbering the task by the size of the store;
- `release()` freeing the GPUs and forgetting the CPUs;
- `stoull` negating without the unsigned wrap;
- the id loop stopping before `end`;
- `parseIntList` giving up at the first invalid entry;
- `myqueue sb` asking for no GPU by default;
- the batch loop sending one request too many;
- `IPCServer::stop` not joining the accept thread first;
- `handleQueryQueue` taking the pending list before the running one;
- the handler's read failing only after the client is done.

## 4. Bounds, fairness, abstractions

### Bounds

- `MaxTasks` (ids), `MaxPids` (forks), `MaxRestarts` and `MaxSeconds` bound the counters.
- Three tasks on two GPU/core pairs are enough for reuse after release, which all the ledger races need. The violation runs find each race with two tasks.
- `Clients = {c1}`: every race found involves one client and the two loop threads.
- `MaxSeconds = 1` in `daemon` gives both same-second and later-second submits.
- Ipc: in `ipc`, one submit, one `myqueue delete` and one `myqueue stop`, each of one request. A handler still goes round its loop after every answer but a SHUTDOWN, and the three clients make shutdown race a connection in every phase. `ipc_late_response` has one batch of two SUBMITs, the least for a late answer to meet the next request. 
- IdRange: 4-bit integers and arguments of 4 characters. These reach overflow ("19" > 15), the largest value (by the wrap, "-1"), signs, spaces and junk.
- CliArgs: up to 4 arguments, which allows two occurrences of an option each with its value. The values are the empty one, "1", "9", "19", "-1", "1,9", ",1", "~" and "/". `HOME` and the working directory are set. With 4-bit unsigned long and int, "19" overflows `stoul` and "9" overflows `stoi`.

### Fairness

- **MyQueue.** Weak fairness for each step of the dispatch thread (the callback step included), of the monitor thread, and of each handler thread once its request has started. The loops run `while (running_)` with a sleep, and a handler runs to completion. Jobs, submissions, deletes and restarts get no fairness. `DispatchAllocate` is a successful `allocate()`, so its fairness also assumes that the probes do not report a free core or GPU as busy forever. `TasksFinish` adds fairness for the jobs only on its left of `=>` (`JobsEnd`), as an assumption about the scripts.
- **Ipc.** Weak fairness for the daemon's threads: main, accept and each handler. A handler's read is enabled to fail whenever its stream is empty, which the 30 s `SO_RCVTIMEO` justifies. CLI processes get no fairness, because a user can stop one at any point.

### Abstractions

- Exit codes are left out: `setTaskCompleted` is called for every exit code. Submit times are whole seconds plus an "exact" flag.
- Vectors of ids are sets.
- Strings, paths, environment variables and logs are left out.
- A delete request carries one id.
- An IPC frame is its JSON object; the length header is left out.

## 5. Not modelled

- **Two daemons at once.** `myqueue server` checks for a running daemon with `connect()`. `Server::stop` closes the socket before it stops the loops and saves. A second daemon can therefore overlap the first: it loads the old file, and the first's final save overwrites its updates. This is listed as a hazard. It needs two incarnations running together, and MyQueue runs one at a time.
- **Frame sizes and malformed frames.** A log over 16 MB cannot be returned. A bad frame closes the connection without the error response spec §7 asks for. `ReadOk` models the checks, and a frame that fails them closes the connection. However, the modelled commands write only frames that pass, and the length header is not modelled.
- **The query, info and log requests on the wire.** `QueueResponse`, `TaskInfo`, `TaskDetailResponse` and `TaskLogResponse` are read field by field with defaults, and their commands make one request per connection. The queue listing is modelled on the daemon side in MyQueue.
- **A SIGTERM taken by a thread other than the main one.** That is undefined behaviour: `stop()` would join its own thread inside a signal handler.
- **Configuration beyond `fromArgs`.** `Config::load`, `save`, `toJson` and `fromJson` have no caller in `src/`. `initDefaultPaths` reads the host name, user and home directory, which is environment I/O. The thresholds `fromArgs` produces enter the other models as constants. Two hazards are listed. First, unchecked `--gpumemory`/`--cpuusage` values: "-1" wraps, and a negative value or "nan" breaks the CPU check. Second, an option without its value swallows the next argument, which `handleServer` reads again as a flag. No property holds the code to a reading of those command lines, because neither the spec nor a comment gives one.
- **The JSON text of a task.** This is a pure conversion. Of a task's JSON the model keeps what changes a value (the status by name, the submit time cut to the second); the text itself is left out. Their values appear as constants and model values. The configured `excluded_cpus/gpus` never reach `ResourceMonitor`, which is listed as a hazard.
- **Negative counts from `myqueue sb`.** `-n -1` reaches the daemon unchecked, although spec §2 says counts are non-negative. `allocate()` treats the count as 0. This is listed as a hazard.
- **The single-task queries (`info`, `log`), `res`, and the CLI's formatting.** Each is one locked read of the store or of the probes plus formatting. The queue listing (`sq`) is modelled on the daemon side, as `handleQueryQueue`'s three store calls; its printing is not.
- **The CLI's exit status.** `myqueue del <ids>` exits 0 when its request fails, and also when it succeeds, because `IPCClient::deleteTasks` returns an empty vector in both cases (listed as a hazard). The Ipc module records what a request returned, not what the process prints or exits with.
- **The text of nvidia-smi and /proc/stat output.** Whitespace, the CSV split and the "cpuN" label are left out. A line is its fields: numbers, or one that does not convert. The probes' mock mode is left out too.
- **Utilisation as a double.** The threshold comparison is made exactly, in integers. A falling iowait counter is listed as a hazard. `check_count` is computed as the code computes it (a division that rounds down); the daemon always passes 3000 ms and 500 ms, which divide evenly.
- **pid reuse after a job is reaped.** Pids are never reused in the model. This is listed as a hazard.
- **`daemonize`**, which is process set-up only.
