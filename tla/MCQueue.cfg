\* Two daemons, a local run of the Web for one project and a cancellation;
\* a daemon or the Web may stop once, at any point.
CONSTANTS
  d1 = d1
  d2 = d2
  web1 = web1
  ok = ok
  bad = bad
  c1 = c1
  None = None
  Jobs <- MCOneJob
  Workers <- MCThree
  Daemons <- MCTwoDaemons
  Inputs <- MCBoth
  Forbidden <- MCBad
  Scope <- MCProjectScope
  Cancellers <- MCOneCanceller
  MaxStale = 1
  MaxCrashes = 1
  MaxWebRestarts = 1
SPECIFICATION MCSpec
INVARIANTS LivePayload StaleBudget OneHolder Survivor
PROPERTIES NothingForgotten EveryJobSettles LifecycleSpec
