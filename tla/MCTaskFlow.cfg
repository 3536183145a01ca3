SPECIFICATION Spec
CONSTANTS
  Proc = {p1, p2}
  t1 = t1
  Tasks = {t1, t2}
  Synthetic = t2
  Prompts = {x1}
  Claims = {c1, c2}
  TaskOf <- AllOfT1
  Queues = {"none", "unknown"}
  MaxTools = 1
  MaxWork = 2
  NoTask = NoTask
  NoPrompt = NoPrompt
  NoClaim = NoClaim
SYMMETRY Calls
CONSTRAINT SecondClaimAlone
INVARIANTS ToolsAddUp AnswerHasCommit
PROPERTIES NoCompletionWhileBusy UnrenewedCompletionCovers
