SPECIFICATION Spec
CONSTANT Parts = {"record", "records", "conversation", "compaction", "facts", "exchanges", "gc"}
INVARIANT ConversationRecovers
PROPERTY RecordsAreWhole
PROPERTY CompactionIsFaithful
PROPERTY ContextIsWhole
PROPERTY CollectionIsSafe
\* Every part may come to rest: the calls are answered, the bounded inputs used up.
CHECK_DEADLOCK FALSE
