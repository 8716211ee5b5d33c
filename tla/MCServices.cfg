SPECIFICATION Spec
CONSTANT Parts = {"process", "node", "llm", "invocation", "log", "native", "analysis", "groups", "races", "app", "held", "extern", "session", "oversight", "mcp", "manager", "attempts", "stream"}
PROPERTY ProcessorIsOrderly
PROPERTY NodeHandsOverCurrent
PROPERTY AgentRowsPair
PROPERTY RetriesAreSound
PROPERTY LogIsEvidence
PROPERTY StopContains
PROPERTY ExternalCallsAreSound
PROPERTY SessionsAreFenced
PROPERTY ServersAreOwned
PROPERTY AttemptsAreHonest
\* Every part may come to rest: the calls are answered, the bounded inputs used up.
CHECK_DEADLOCK FALSE
