\* One job on PostgreSQL: two daemons and a cancellation; a daemon and the Web
\* may each stop once at any point.
CONSTANTS
  d1 = d1
  d2 = d2
  ok = ok
  c1 = c1
  None = None
  Inputs <- MCOk
  Forbidden <- MCEmpty
  Scope <- MCAnyScope
  Jobs <- MCOneJob
  Workers <- MCTwoDaemons
  Daemons <- MCTwoDaemons
  Cancellers <- MCOneCanceller
  MaxStale = 1
  MaxCrashes = 1
  MaxWebRestarts = 1
SPECIFICATION PrismaSpec
SYMMETRY MCDaemonSymmetry
INVARIANTS LivePayload
PROPERTIES SettledRowsStay LatestClaimCompletes LifecycleSteps
