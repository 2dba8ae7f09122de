\* One run, every mode, role and fallback; two attempts.  Texts of up to two
\* deltas are enough for an attempt that fails after it has delivered.
CONSTANTS
  MaxAttempts = 2
  MaxFrames = 2
  MaxText = 3
SPECIFICATION FairSpec
\* A run ends.
CHECK_DEADLOCK FALSE
INVARIANTS TimersInTime EventsTell AnswerTold
PROPERTIES EveryRunEnds
