CONSTANTS c1 = c1  c2 = c2  NoJob = NoJob
CONSTANT Workers <- MCWorkers
CONSTANT Callers <- MCCallers
CONSTANT DefaultCount <- MCDefaultCount
CONSTANT Counts <- MCCounts
CONSTANT CurlCanFail = FALSE
CONSTANT DestroyWhenIdle = FALSE
SPECIFICATION Spec
PROPERTY DestroyCompletes
CHECK_DEADLOCK FALSE
