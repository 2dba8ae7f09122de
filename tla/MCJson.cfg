\* A daemon process and the Web with a local run and a cancellation on the same
\* files; each process may stop once.
CONSTANTS
  d1 = d1
  web1 = web1
  ok = ok
  c1 = c1
  None = None
  Inputs <- MCOk
  Forbidden <- MCEmpty
  Scope <- MCAnyScope
  Jobs <- MCOneJob
  Workers <- MCMixed
  Daemons <- MCDaemon
  Cancellers <- MCOneCanceller
  MaxStale = 1
  MaxCrashes = 1
  MaxWebRestarts = 1
  MaxClaims = 2
SPECIFICATION JsonSpec
\* MaxClaims stops the workers: the bound, not the code, ends a behaviour.
CHECK_DEADLOCK FALSE
INVARIANTS OneHolder
PROPERTIES CallsAtomic
