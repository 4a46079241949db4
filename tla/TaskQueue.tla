----------------------------- MODULE TaskQueue -----------------------------
(***************************************************************************)
(* The task store (src/src/core/task_queue.cpp).  Every method holds       *)
(* TaskQueue::mutex_ for its whole body, so each is one atomic step of    *)
(* whoever calls it.  A task keeps its request, status, pid and the sets  *)
(* it was given.  Of the timestamps only submit_time matters (it orders   *)
(* the pending list): a task keeps the second it was submitted in and      *)
(* whether its time still has sub-second precision (exact); save() writes *)
(* whole seconds, so every loaded task has lost it.  The system clock is   *)
(* taken to be monotone, so exact times grow with the id.  start/end times*)
(* follow the status; exit codes are left out: no status depends on them. *)
(* disk is the content of tasks.json (save() rewrites all of it).          *)
(***************************************************************************)
EXTENDS Integers, FiniteSets, TLC

CONSTANTS Requests   \* the SubmitRequests clients send

VARIABLES
  tasks,   \* TaskQueue::tasks_, a function from id to task record
  nextId,  \* TaskQueue::next_id_
  disk     \* tasks.json: [tasks, nextId]

Statuses == {"Pending", "Running", "Completed", "Failed", "Cancelled"}
Terminal == {"Completed", "Failed", "Cancelled"}

\* struct Task, with the fields a status depends on: the request, the
\* status, the pid, the allocated sets, and the submit time as its second
\* and whether it still has sub-second precision.  Paths, the log file,
\* the exit code and the start/end times are left out.
IsTask(t) ==
  /\ t.req \in Requests /\ t.status \in Statuses /\ t.pid \in Nat
  /\ t.cpus \subseteq Nat /\ t.gpus \subseteq Nat
  /\ t.sec \in Nat /\ t.exact \in BOOLEAN

\* A fresh task as submit() builds it, stamped in second sec.
NewTask(req, sec) ==
  [req |-> req, status |-> "Pending", pid |-> 0, cpus |-> {}, gpus |-> {},
   sec |-> sec, exact |-> TRUE]

EmptyStore == [tasks |-> <<>>, nextId |-> 1]

StoreInit ==
  /\ tasks = <<>>
  /\ nextId = 1
  /\ disk = EmptyStore

-----------------------------------------------------------------------------
(* The store methods, as the new value of tasks_ they leave.  A method    *)
(* whose precondition fails returns false and leaves tasks_ as it was.     *)

WithStatus(s) == {i \in DOMAIN tasks : tasks[i].status = s}

\* Mutation: the new id is one past the number of tasks held.
SubmittedBySize(req, sec) ==
  LET id == Cardinality(DOMAIN tasks) + 1
  IN  [i \in DOMAIN tasks \cup {id} |-> IF i = id THEN NewTask(req, sec) ELSE tasks[i]]

\* submit(): assign next_id_, insert as Pending.
Submitted(req, sec) == [i \in DOMAIN tasks \cup {nextId} |->
                          IF i = nextId THEN NewTask(req, sec) ELSE tasks[i]]

\* submit_time of u is before that of t: an earlier second, or the same
\* second with t still exact (then u, older, is earlier: a loaded u has
\* .000, an exact u a smaller exact time).  Two loaded tasks of one second
\* have equal times.
Earlier(u, t) ==
  \/ tasks[u].sec < tasks[t].sec
  \/ tasks[u].sec = tasks[t].sec /\ u < t /\ tasks[t].exact

\* getPendingTasks(): the pending tasks std::sort-ed by submit_time alone;
\* the dispatcher takes the front, any task no other pending task precedes
\* (std::sort leaves equal elements in an unspecified order).
PendingHeads ==
  {t \in WithStatus("Pending") : ~\E u \in WithStatus("Pending") : Earlier(u, t)}

CanSetRunning(id) == id \in DOMAIN tasks /\ tasks[id].status = "Pending"

\* setTaskRunning(): only from PENDING.
SetTaskRunning(id, pid, cpus, gpus) ==
  IF CanSetRunning(id)
  THEN [tasks EXCEPT ![id] = [@ EXCEPT !.status = "Running", !.pid = pid,
                                       !.cpus = cpus, !.gpus = gpus]]
  ELSE tasks

\* setTaskCompleted(): only from RUNNING.
SetTaskCompleted(id) ==
  IF id \in DOMAIN tasks /\ tasks[id].status = "Running"
  THEN [tasks EXCEPT ![id].status = "Completed"]
  ELSE tasks

\* setTaskFailed(): from PENDING or RUNNING.
SetTaskFailed(id) ==
  IF id \in DOMAIN tasks /\ tasks[id].status \in {"Pending", "Running"}
  THEN [tasks EXCEPT ![id].status = "Failed"]
  ELSE tasks

\* deleteTask(): the record is marked CANCELLED and erased in the same
\* critical section, whatever its status, so only the erasure is visible.
DeleteTask(id) == [i \in DOMAIN tasks \ {id} |-> tasks[i]]

-----------------------------------------------------------------------------
(* The record tasks.json holds for a task (Task::toJson, Task::fromJson).  *)

\* taskStatusToString: the lower-case name written into the file.
StatusToString ==
  ("Pending" :> "pending") @@ ("Running" :> "running") @@
  ("Completed" :> "completed") @@ ("Failed" :> "failed") @@
  ("Cancelled" :> "cancelled")

\* taskStatusFromString: the status of that name (any other name throws).
StatusFromString(str) == CHOOSE s \in Statuses : StatusToString[s] = str

\* timePointToString: "%Y-%m-%dT%H:%M:%SZ", the second without its fraction.
TimePointToString(t) == t.sec

\* stringToTimePoint: timegm of the parsed fields, a whole second.
StringToTimePoint(sec) == [sec |-> sec, exact |-> FALSE]

\* Task::toJson: every field, the status by name, submit_time as a string.
ToJson(t) ==
  [req |-> t.req, status |-> StatusToString[t.status], pid |-> t.pid,
   cpus |-> t.cpus, gpus |-> t.gpus, sec |-> TimePointToString(t)]

\* Task::fromJson: the fields back, the status parsed from its name.
FromJson(j) ==
  LET time == StringToTimePoint(j.sec)
  IN  [req |-> j.req, status |-> StatusFromString(j.status), pid |-> j.pid,
       cpus |-> j.cpus, gpus |-> j.gpus, sec |-> time.sec, exact |-> time.exact]

\* save(): next_id_ and the toJson of every task.
Saved(t, n) == [tasks |-> [i \in DOMAIN t |-> ToJson(t[i])], nextId |-> n]

\* load() of a parsed file: tasks_[task.id] = Task::fromJson of each entry.
Loaded(file) == [i \in DOMAIN file.tasks |-> FromJson(file.tasks[i])]

\* load() after a crash or restart, as the files it may read.  A missing
\* file is the empty store (the initial disk); a parsed file replaces tasks_
\* and next_id_.  save() truncates tasks.json before it writes it, so a
\* crash during a save (torn) leaves a file whose parse throws: the catch
\* clears tasks_ and sets next_id_ to 1, as if there were no file.
LoadOutcomes(file, torn) == IF torn THEN {file, EmptyStore} ELSE {file}

=============================================================================
