\* Every table, three keys.
CONSTANTS
  Keys = {1, 2, 3}
  MaxSaves = 6
SPECIFICATION TablesSpec
\* MaxSaves ends a behaviour.
CHECK_DEADLOCK FALSE
INVARIANTS SameRecords SameLists
