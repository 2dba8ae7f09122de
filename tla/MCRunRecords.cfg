\* Two finalizers and two interrupts on either kind of repositories.
CONSTANTS
  f1 = f1
  f2 = f2
  i1 = i1
  i2 = i2
  Finalizers <- MCTwoFinalizers
  Interrupters <- MCTwoInterrupters
SPECIFICATION Spec
\* A command that has been dealt with: nothing is left to do.
CHECK_DEADLOCK FALSE
SYMMETRY MCSymmetry
INVARIANTS RunFollowsJob Resumable TerminalEventOnce
