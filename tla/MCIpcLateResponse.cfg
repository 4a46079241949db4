\* One batch submit of two directories on one connection.
CONSTANTS
  Submitters = {s1}
  Stoppers = {}
  Deleters = {}
  Batch = 2

SPECIFICATION Spec
\* The daemon process ends: run() returns and the process exits.
CHECK_DEADLOCK FALSE
INVARIANT ResponseMatchesRequest
