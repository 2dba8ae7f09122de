\* Two deletions and two savers in one process, on each kind of store.
CONSTANTS
  None = None
  w1 = w1
  w2 = w2
  d1 = d1
  d2 = d2
  web = web
  Rows <- MCRows
  InitialRows <- MCInitialRows
  Processes <- MCOneProcess
  Savers <- MCSavers
  Deleters <- MCDeleters
  Home <- MCHome
  Script <- MCScript
  Target <- MCTarget
SPECIFICATION Spec
\* Every caller has returned.
CHECK_DEADLOCK FALSE
INVARIANTS DeletionComplete DeletionRepeatable
PROPERTIES AtomicFile
