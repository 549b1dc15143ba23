SPECIFICATION Spec
CONSTANTS
  Agents = {a1}
  Pair = {a1, a2}
  Dialogs = {d1, d2}
  FirstDialog = d1
  None = None
INVARIANTS NoSilentExecution QuestionVisible LimitsHold
 
CHECK_DEADLOCK FALSE
