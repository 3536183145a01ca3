SPECIFICATION Spec
CONSTANTS
  Paths = {p1, p2}
  Contents = {c1, l1}
  Links = {l1}
  Blank = c1
  Absent = Absent
  Directory = Directory
  Hooks = {h1}
  Requests <- SomeRequests
  None = None
  MaxCommits = 2
  MaxEdits = 4
SYMMETRY Interchangeable
INVARIANTS PlanIsSessionWork PlannedContentWasRead StartedHasBaseline
CHECK_DEADLOCK FALSE
