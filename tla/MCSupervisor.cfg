SPECIFICATION Spec
CONSTANTS
  project = project
  goal = goal
  task = task
  task2 = task2
  none = none
  Cards <- ChainCards
  Root = project
  NoCard = none
  Parent <- ChainParent
  Anc <- ChainAnc
  DependsOn <- ChainDeps
  RunIds = {r1, r2}
  NoRun = noRun
  Inputs = {"start", "pause", "stop", "close", "cancel", "urgent", "notify", "analyst", "planner", "gc", "fault"}
INVARIANTS
  CoreInv
  OwnedFrontier
  GateIsTrue
PROPERTIES
  DoneIsFinal
  FirstWinnerDecides
  HaltFreezes
  CloseIsFinal
  ImplementsCardLifecycle
\* A closed or failed runtime waits for its process to end.
CHECK_DEADLOCK FALSE
