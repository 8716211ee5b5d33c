SPECIFICATION Spec
CONSTANTS
  project = project
  goal = goal
  task = task
  task2 = task2
  none = none
  Cards <- ForkCards
  Root = project
  NoCard = none
  Parent <- ForkParent
  Anc <- ForkAnc
  DependsOn <- ForkDeps
  RunIds = {r1}
  NoRun = noRun
  Inputs = {"start", "stop", "cancel", "urgent", "analyst", "planner", "fault", "crash"}
INVARIANT RunningIsChain
