SPECIFICATION Spec
CONSTANT Parts = {"lock", "head", "damage", "store", "relinks", "repair", "edited", "history", "announce", "trees"}
PROPERTY LockExcludes
PROPERTY HeadsSurvive
PROPERTY TreeSurvives
PROPERTY RepairIsExact
PROPERTY ProjectionsAgree
\* Every part may come to rest: the calls are answered, the bounded inputs used up.
CHECK_DEADLOCK FALSE
