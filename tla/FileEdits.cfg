SPECIFICATION Spec
CONSTANTS
  dialogue = dialogue
  Tasks = {1, 2, 3}
  Calls = {1, 2, 3}
  Outsiders = {o}
  Sessions = {dialogue}
  SessionOf <- OneSession
  NoTask = NoTask NoCall = NoCall
  Original = Original Absent = Absent Nothing = Nothing
CONSTRAINT Bounded
VIEW Order
CHECK_DEADLOCK FALSE
INVARIANTS
    ExclusiveEditing
    LiveWorkIsKept
    NoBlindOverwrite
