SPECIFICATION FairSpec
CONSTANT Parts = {"process", "llm", "invocation0", "native", "races0", "app", "extern0", "session", "oversight", "mcp0", "manager", "stream", "conversation0", "compaction0", "gc0", "paging0", "search0", "chain0", "live0", "send0", "summary0"}
PROPERTY StopsEnd
PROPERTY CallsEnd
PROPERTY ViewsConverge
\* Every part may come to rest: the calls are answered, the bounded inputs used up.
CHECK_DEADLOCK FALSE
