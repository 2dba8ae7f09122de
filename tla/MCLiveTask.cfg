\* Two prompts, the second once the first is done; one upset.
SPECIFICATION FairSpec
CONSTANTS
  MaxPrompts = 2
  MaxUpsets = 1
  MaxBusy = 0
  None = None
CHECK_DEADLOCK FALSE
INVARIANTS PromptOnce LandsOnTask
PROPERTIES TabSettles
