SPECIFICATION Spec
CONSTANT Parts = {"live", "runtime", "tree", "versions", "recordview", "chat", "send", "summary", "segment", "exchange"}
INVARIANT ShownIsSelected
INVARIANT QuietIsFresh
\* Every part may come to rest: the calls are answered, the bounded inputs used up.
CHECK_DEADLOCK FALSE
