\* One submit, one "myqueue delete" (by id or "all") and one
\* "myqueue stop".
CONSTANTS
  Submitters = {s1}
  Stoppers = {p1}
  Deleters = {d1}
  Batch = 1

SPECIFICATION Spec
\* The daemon process ends: run() returns and the process exits.
CHECK_DEADLOCK FALSE
INVARIANT TypeOK
INVARIANT NoHandlerOutlivesStop
INVARIANT StopAcknowledgedMeansStopping
PROPERTY StopCompletes
