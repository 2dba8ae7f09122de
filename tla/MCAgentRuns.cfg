\* Two chains, or one chain and two retries.
CONSTANTS
  None = None
  c1 = c1
  c2 = c2
  r1 = r1
  r2 = r2
  web = web
  Chains <- MCTwoChains
  Retries <- MCTwoRetries
  Processes <- MCOneProcess
  Home <- MCHome
  MaxFaults = 2
SPECIFICATION MCSpec
\* Every call has returned.
CHECK_DEADLOCK FALSE
INVARIANTS ConsumedOnce BuiltOnce NoBlockerDeployed
PROPERTIES EveryCallReturns
