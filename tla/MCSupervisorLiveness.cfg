SPECIFICATION FairSpec
CONSTANTS
  project = project
  goal = goal
  task = task
  task2 = task2
  none = none
  Cards <- ChainCards
  Root = project
  NoCard = none
  Parent <- ChainParent
  Anc <- ChainAnc
  DependsOn <- ChainDeps
  RunIds = {r1}
  NoRun = noRun
  Inputs = {"start", "pause", "stop", "cancel", "urgent"}
PROPERTY RequestsSettle
\* A finished project with a done root has nothing left to do.
CHECK_DEADLOCK FALSE
