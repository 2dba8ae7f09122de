\* One chat after eight messages: its question is the ninth.
CONSTANTS
  c1 = c1
  c2 = c2
  Chats = {c1}
  Earlier = 8
  None = None
  MaxDeletes = 0
  MaxFaults = 0
SPECIFICATION Spec
\* Chats end.
CHECK_DEADLOCK FALSE
INVARIANTS AnswerIsSaved
