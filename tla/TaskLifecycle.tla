--------------------------- MODULE TaskLifecycle ---------------------------
(***************************************************************************)
(* What the task store promises about one task id (spec section 3,        *)
(* "Lifecycle" and "States and transitions"): ids are handed out in       *)
(* increasing order and never again; a task is created Pending; only the  *)
(* scheduler moves it on (Pending to Running, Running to Completed,        *)
(* Pending or Running to Failed); a delete removes it, from any state, and *)
(* the id stays gone.  Cancelled exists only "just before removal", so it  *)
(* is folded into the removal.                                             *)
(***************************************************************************)
EXTENDS Naturals

CONSTANTS Ids   \* the ids the store may hand out

VARIABLE life   \* life[i]: "Unused", a task status, or "Removed"

Live(i) == life[i] \notin {"Unused", "Removed"}

Init == life = [i \in Ids |-> "Unused"]

\* Submit: the new id exceeds every id handed out before.
Create(i) ==
  /\ life[i] = "Unused"
  /\ \A j \in Ids : life[j] # "Unused" => j < i
  /\ life' = [life EXCEPT ![i] = "Pending"]

\* The scheduler's moves.
Move(i, from, to) == life[i] = from /\ life' = [life EXCEPT ![i] = to]
Dispatch(i)   == Move(i, "Pending", "Running")
Exit(i)       == Move(i, "Running", "Completed")
LaunchFail(i) == Move(i, "Pending", "Failed")
Lost(i)       == Move(i, "Running", "Failed")

\* Delete: any state, then removal.
Remove(i) == Live(i) /\ life' = [life EXCEPT ![i] = "Removed"]

Next == \E i \in Ids :
          \/ Create(i) \/ Dispatch(i) \/ Exit(i) \/ LaunchFail(i) \/ Lost(i)
          \/ Remove(i)

Spec == Init /\ [][Next]_life

=============================================================================
