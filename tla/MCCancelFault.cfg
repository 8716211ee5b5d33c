SPECIFICATION FairSpec
CONSTANTS
  project = project
  goal = goal
  task = task
  task2 = task2
  none = none
  Cards <- ChainCards
  Root = project
  NoCard = none
  Parent <- ChainParent
  Anc <- ChainAnc
  DependsOn <- ChainDeps
  RunIds = {r1}
  NoRun = noRun
  Inputs = {"start", "cancel", "fault"}
PROPERTY CancellationSettles
CHECK_DEADLOCK FALSE
