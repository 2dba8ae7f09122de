\* Two chats in new or stored tasks, one failing save, one deleted task.
CONSTANTS
  c1 = c1
  c2 = c2
  Chats = {c1, c2}
  Earlier = 2
  None = None
  MaxDeletes = 1
  MaxFaults = 1
SPECIFICATION MCSpec
\* Chats end.
CHECK_DEADLOCK FALSE
INVARIANTS ToldAnswersStay NothingAbandonedLeft AnswerHasRun
PROPERTIES EveryChatEnds
