SPECIFICATION Spec
CONSTANT Parts = {"paging", "search", "writes", "chain", "pack", "graphs", "policies"}
INVARIANT FetchIsGuarded
INVARIANT CompiledRuns
PROPERTY PagingIsExact
 
\* Every part may come to rest: the calls are answered, the bounded inputs used up.
CHECK_DEADLOCK FALSE
